---- MODULE Spec2Model ----
(***************************************************************************)
(* Ownership and bookkeeping discipline of the azrael Bullet wrapper:      *)
(* the dynamics world (BulletBase), the compound collision shape           *)
(* (CompoundShape) and the typed constraints (TypedConstraint,             *)
(* Point2PointConstraint), together with the native containers the wrapper *)
(* mirrors.                                                                *)
(***************************************************************************)
EXTENDS Integers, Sequences, FiniteSets, TLC

(* ------------------------------ bounds -------------------------------- *)

\* Number of Point2PointConstraint wrapper objects the client holds.
NumConstraints == 3
\* Number of concrete collision-shape wrapper objects the client holds.
NumShapes == 3
\* Number of distinct local transforms the client passes.
NumTransforms == 2
\* Largest number of children a compound shape is given.
MaxChildren == 3
\* Longest masses argument passed to calculatePrincipalAxisTransform.
MaxMasses == 3
\* Number of rigid bodies the client constructs itself.
NumBodies == 2
\* Largest number of native rigid bodies that are ever allocated.
MaxNativeBodies == 4

Constraints == 1..NumConstraints
Shapes      == 1..NumShapes
Transforms  == 1..NumTransforms
Bodies      == 1..NumBodies

VARIABLES
    worldPhase,         \* "uninit" | "alive" | "dead": lifetime of the BulletBase
    createLog,          \* native components of the world, in order of creation
    destroyLog,         \* native components of the world, in order of deletion
    _list_constraints,  \* BulletBase._list_constraints (constraint wrappers)
    m_constraints,      \* native world's constraint array (native pointers)
    _list_cs,           \* CompoundShape._list_cs (ChildElement tuples)
    m_children,         \* native compound shape's child array
    bodyHeap,           \* native rigid bodies: address -> contents
    handles,            \* RigidBody wrappers: sequence of native addresses
    enabled,            \* native constraint enable flag, per constraint
    clientRef,          \* does the client hold a reference to constraint wrapper c
    liveConstraints,    \* native constraints that have not been deleted
    ret,                \* outcome of the last wrapper call
    probe               \* container snapshot taken by the last add call

vars == <<worldPhase, createLog, destroyLog, _list_constraints, m_constraints,
          _list_cs, m_children, bodyHeap, handles, enabled,
          clientRef, liveConstraints, ret, probe>>

worldVars    == <<worldPhase, createLog, destroyLog, _list_constraints, m_constraints>>
compoundVars == <<_list_cs, m_children>>
bodyVars     == <<bodyHeap, handles, enabled>>
lifeVars     == <<clientRef, liveConstraints>>

(* ----------------------------- constraints ---------------------------- *)

\* Point2PointConstraint.__init__ parameters of the client's constraints:
\* constraints 1 and 2 are two objects built from identical parameters.
ConstraintParams(c) ==
    IF c = 3 THEN [rbA |-> 2, rbB |-> 1, pivot |-> 1]
             ELSE [rbA |-> 1, rbB |-> 2, pivot |-> 0]

\* Native pointer owned by constraint wrapper c (one `new` per wrapper).
ptr_TypedConstraint(c) == [kind |-> "btPoint2PointConstraint", addr |-> c]

(* --------------------------- generic helpers -------------------------- *)

Range(s) == {s[i] : i \in 1..Len(s)}

\* Variant of PyIn that compares constraints by the parameters they were
\* built from instead of by identity.
PyInByValue(x, lst) ==
    \E i \in 1..Len(lst) : ConstraintParams(lst[i]) = ConstraintParams(x)

\* Python: `x in lst` / `a != b` on cdef classes that define no rich
\* comparison compare object identity.
PyIn(x, lst) == \E i \in 1..Len(lst) : lst[i] = x

\* Python: `len(tmp) == lst`, an int compared with a list, is never equal.
IntEqualsList(n, lst) == FALSE

\* btAlignedObjectArray::findLinearSearch: first index holding key, else size
\* (1-based here, so "size" is Len + 1).
findLinearSearch(arr, key) ==
    IF \E i \in 1..Len(arr) : arr[i] = key
    THEN CHOOSE i \in 1..Len(arr) : arr[i] = key /\ \A j \in 1..(i-1) : arr[j] # key
    ELSE Len(arr) + 1

\* btAlignedObjectArray::swap followed by pop_back.
swapPop(arr, i) ==
    LET n == Len(arr)
        swapped == [k \in 1..n |-> IF k = i THEN arr[n] ELSE IF k = n THEN arr[i] ELSE arr[k]]
    IN  SubSeq(swapped, 1, n - 1)

\* btAlignedObjectArray::remove(key): swap the first match with the last
\* element and pop it; nothing happens when key is not found.
arrayRemove(arr, key) ==
    LET idx == findLinearSearch(arr, key)
    IN  IF idx <= Len(arr) THEN swapPop(arr, idx) ELSE arr

\* Outcome of a wrapper call: the method, its argument, how it returned
\* ("None", "value", "AssertionError", "crash"), the number or object it
\* returned, the native calls it issued, and a returned (inertia, principal).
Ret(op, arg, out, num, native) ==
    [op |-> op, arg |-> arg, out |-> out, num |-> num, native |-> native,
     inertia |-> "none", principal |-> "none"]
NoRet == Ret("none", 0, "None", 0, <<>>)

NoProbe == [phase |-> "none", obj |-> "none", elem |-> 0, count |-> 0,
            members |-> {}, ncount |-> 0, nmembers |-> {}]

(* --------------------------- dynamics world --------------------------- *)

\* Order of the `new` statements in BulletBase.__cinit__.
CinitOrder ==
    <<"collisionConfiguration", "dispatcher", "pairCache", "solver", "dynamicsWorld">>

\* Variant of DeallocOrder that deletes the collision configuration while the
\* dispatcher built on it still exists.
DeallocOrderConfigFirst ==
    <<"dynamicsWorld", "solver", "pairCache", "collisionConfiguration", "dispatcher">>

\* Order of the `del` statements in BulletBase.__dealloc__.
DeallocOrder ==
    <<"dynamicsWorld", "solver", "pairCache", "dispatcher", "collisionConfiguration">>

\* Constructor arguments: which native component is built on which.
BuiltOn ==
    { <<"dispatcher", "collisionConfiguration">>,
      <<"dynamicsWorld", "dispatcher">>,
      <<"dynamicsWorld", "pairCache">>,
      <<"dynamicsWorld", "solver">>,
      <<"dynamicsWorld", "collisionConfiguration">> }

BulletBase__cinit__ ==
    /\ worldPhase = "uninit"
    /\ worldPhase' = "alive"
    /\ createLog' = createLog \o CinitOrder
    /\ _list_constraints' = <<>>
    /\ m_constraints' = <<>>
    /\ ret' = Ret("BulletBase", 0, "None", 0, <<>>)
    /\ probe' = NoProbe
    /\ UNCHANGED <<destroyLog, compoundVars, bodyVars, lifeVars>>

\* Native constraints deleted when the dead world's _list_constraints is
\* released: Point2PointConstraint.__dealloc__ runs for every entry to which
\* the list held the last reference.
ReleasedWithWorld ==
    {ptr_TypedConstraint(c) : c \in {e \in Range(_list_constraints) : ~clientRef[e]}}

BulletBase__dealloc__ ==
    /\ worldPhase = "alive"
    /\ worldPhase' = "dead"
    /\ destroyLog' = destroyLog \o DeallocOrder
    /\ liveConstraints' = liveConstraints \ ReleasedWithWorld
    /\ ret' = Ret("del BulletBase", 0, "None", 0, <<>>)
    /\ probe' = NoProbe
    /\ UNCHANGED <<createLog, _list_constraints, m_constraints, compoundVars, bodyVars, clientRef>>

\* Snapshot of the world's container: count and membership, wrapper and native.
WorldSnapshot(phase, c) ==
    [phase |-> phase, obj |-> "world", elem |-> c,
     count |-> Len(_list_constraints), members |-> Range(_list_constraints),
     ncount |-> Len(m_constraints),
     nmembers |-> {p.addr : p \in Range(m_constraints)}]

\* Variant of addConstraint that registers the constraint with the native
\* world but does not record it in the tracked sequence, so the world keeps
\* no reference to the wrapper.
addConstraintNativeOnly(c) ==
    /\ worldPhase = "alive"
    /\ clientRef[c]
    /\ _list_constraints' = _list_constraints
    /\ m_constraints' = Append(m_constraints, ptr_TypedConstraint(c))
    /\ ret' = Ret("addConstraint", c, "None", 0, <<"addConstraint">>)
    /\ probe' = WorldSnapshot("added", c)
    /\ UNCHANGED <<worldPhase, createLog, destroyLog, compoundVars, bodyVars, lifeVars>>

addConstraint(c) ==
    /\ worldPhase = "alive"
    /\ clientRef[c]
    /\ IF PyIn(c, _list_constraints)
       THEN /\ UNCHANGED <<_list_constraints, m_constraints>>
            /\ ret' = Ret("addConstraint", c, "None", 0, <<>>)
       ELSE /\ _list_constraints' = Append(_list_constraints, c)
            /\ m_constraints' = Append(m_constraints, ptr_TypedConstraint(c))
            /\ ret' = Ret("addConstraint", c, "None", 0, <<"addConstraint">>)
    /\ probe' = WorldSnapshot("added", c)
    /\ UNCHANGED <<worldPhase, createLog, destroyLog, compoundVars, bodyVars, lifeVars>>

\* Variant of removeConstraint that drops the entry from the tracked sequence
\* but never tells the native world.
removeConstraintListOnly(c) ==
    LET tmp == SelectSeq(_list_constraints, LAMBDA e : e # c)
    IN  /\ worldPhase = "alive"
        /\ clientRef[c]
        /\ _list_constraints' = tmp
        /\ m_constraints' = m_constraints
        /\ ret' = Ret("removeConstraint", c, "None", 0, <<>>)
        /\ probe' = IF probe.phase = "added" /\ probe.obj = "world" /\ probe.elem = c
                    THEN [probe EXCEPT !.phase = "removed"]
                    ELSE NoProbe
        /\ UNCHANGED <<worldPhase, createLog, destroyLog, compoundVars, bodyVars, lifeVars>>

removeConstraint(c) ==
    LET tmp == SelectSeq(_list_constraints, LAMBDA e : e # c)
    IN  /\ worldPhase = "alive"
        /\ clientRef[c]
        /\ IF IntEqualsList(Len(tmp), _list_constraints)
           THEN /\ UNCHANGED <<_list_constraints, m_constraints>>
                /\ ret' = Ret("removeConstraint", c, "None", 0, <<>>)
           ELSE /\ _list_constraints' = tmp
                /\ m_constraints' = arrayRemove(m_constraints, ptr_TypedConstraint(c))
                /\ ret' = Ret("removeConstraint", c, "None", 0, <<"removeConstraint">>)
        /\ probe' = IF probe.phase = "added" /\ probe.obj = "world" /\ probe.elem = c
                    THEN [probe EXCEPT !.phase = "removed"]
                    ELSE NoProbe
        /\ UNCHANGED <<worldPhase, createLog, destroyLog, compoundVars, bodyVars, lifeVars>>

getNumConstraints ==
    /\ worldPhase = "alive"
    /\ ret' = IF Len(_list_constraints) # Len(m_constraints)
              THEN Ret("getNumConstraints", 0, "AssertionError", 0, <<"getNumConstraints">>)
              ELSE Ret("getNumConstraints", 0, "value", Len(m_constraints),
                       <<"getNumConstraints", "getNumConstraints">>)
    /\ probe' = NoProbe
    /\ UNCHANGED <<worldVars, compoundVars, bodyVars, lifeVars>>

\* Python `lst[index]`: valid for -len <= index < len, negative indices count
\* from the end; the value 0 stands for IndexError.
PyListIndex(lst, index) ==
    IF 0 <= index /\ index < Len(lst) THEN lst[index + 1]
    ELSE IF index < 0 /\ -Len(lst) <= index THEN lst[Len(lst) + index + 1]
    ELSE 0

\* BulletBase.getConstraint(index): hands the caller a reference to the
\* tracked wrapper, or None on IndexError.
getConstraint(index) ==
    LET c == PyListIndex(_list_constraints, index)
    IN  /\ worldPhase = "alive"
        /\ IF c = 0
           THEN /\ ret' = Ret("getConstraint", index, "None", 0, <<>>)
                /\ clientRef' = clientRef
           ELSE /\ ret' = Ret("getConstraint", index, "value", c, <<>>)
                /\ clientRef' = [clientRef EXCEPT ![c] = TRUE]
        /\ probe' = NoProbe
        /\ UNCHANGED <<worldVars, compoundVars, bodyVars, liveConstraints>>

\* The reference an existing world's _list_constraints holds to wrapper c.
HeldByWorld(c) == worldPhase = "alive" /\ PyIn(c, _list_constraints)

\* The client drops its reference to constraint wrapper c (`del c`).  When
\* that was the last reference, Point2PointConstraint.__dealloc__ runs and
\* deletes the native constraint.
dropConstraint(c) ==
    /\ clientRef[c]
    /\ clientRef' = [clientRef EXCEPT ![c] = FALSE]
    /\ IF HeldByWorld(c)
       THEN /\ liveConstraints' = liveConstraints
            /\ ret' = Ret("del constraint", c, "None", 0, <<>>)
       ELSE /\ liveConstraints' = liveConstraints \ {ptr_TypedConstraint(c)}
            /\ ret' = Ret("del constraint", c, "None", 0, <<"delete">>)
    /\ probe' = NoProbe
    /\ UNCHANGED <<worldVars, compoundVars, bodyVars>>

NextWorld ==
    \/ BulletBase__cinit__
    \/ BulletBase__dealloc__
    \/ \E c \in Constraints : addConstraint(c)
    \/ \E c \in Constraints : removeConstraint(c)
    \/ getNumConstraints

(* ---------------------------- compound shape -------------------------- *)

\* Native pointer owned by collision-shape wrapper s (one `new` per wrapper).
ptr_CollisionShape(s) == [kind |-> "btCollisionShape", addr |-> s]

\* collections.namedtuple('ChildElement', 'transform cshape')
ChildElement(t, s) == [transform |-> t, cshape |-> s]

\* btCompoundShapeChild as stored by btCompoundShape::addChildShape.
NativeChild(t, s) == [transform |-> t, shape |-> ptr_CollisionShape(s)]

\* btCompoundShape::removeChildShape(shape): walk the array from the last
\* index down and removeChildShapeByIndex (swap with last, pop) every child
\* that uses the shape.
RECURSIVE removeChildLoop(_, _, _)
removeChildLoop(children, shape, i) ==
    IF i < 1 THEN children
    ELSE IF children[i].shape = shape
         THEN removeChildLoop(swapPop(children, i), shape, i - 1)
         ELSE removeChildLoop(children, shape, i - 1)

nativeRemoveChildShape(children, shape) == removeChildLoop(children, shape, Len(children))

CompoundSnapshot(phase, s) ==
    [phase |-> phase, obj |-> "compound", elem |-> s,
     count |-> Len(_list_cs), members |-> {e.cshape : e \in Range(_list_cs)},
     ncount |-> Len(m_children),
     nmembers |-> {e.shape.addr : e \in Range(m_children)}]

\* Variant of addChildShape that, like addConstraint, skips the wrapper list
\* when the shape is already a child, yet still adds the native child.
addChildShapeOnce(t, s) ==
    /\ Len(_list_cs) < MaxChildren
    /\ _list_cs' = IF \E i \in 1..Len(_list_cs) : _list_cs[i].cshape = s
                   THEN _list_cs
                   ELSE Append(_list_cs, ChildElement(t, s))
    /\ m_children' = Append(m_children, NativeChild(t, s))
    /\ ret' = Ret("addChildShape", s, "None", 0, <<"addChildShape">>)
    /\ probe' = CompoundSnapshot("added", s)
    /\ UNCHANGED <<worldVars, bodyVars, lifeVars>>

addChildShape(t, s) ==
    /\ Len(_list_cs) < MaxChildren
    /\ _list_cs' = Append(_list_cs, ChildElement(t, s))
    /\ m_children' = Append(m_children, NativeChild(t, s))
    /\ ret' = Ret("addChildShape", s, "None", 0, <<"addChildShape">>)
    /\ probe' = CompoundSnapshot("added", s)
    /\ UNCHANGED <<worldVars, bodyVars, lifeVars>>

\* Variant of removeChildShape that drops the entries from the wrapper list
\* but never tells the native compound shape.
removeChildShapeListOnly(s) ==
    LET tmp == SelectSeq(_list_cs, LAMBDA e : e.cshape # s)
    IN  /\ _list_cs' = tmp
        /\ m_children' = m_children
        /\ ret' = Ret("removeChildShape", s, "None", 0, <<>>)
        /\ probe' = IF probe.phase = "added" /\ probe.obj = "compound" /\ probe.elem = s
                    THEN [probe EXCEPT !.phase = "removed"]
                    ELSE NoProbe
        /\ UNCHANGED <<worldVars, bodyVars, lifeVars>>

removeChildShape(s) ==
    LET tmp == SelectSeq(_list_cs, LAMBDA e : e.cshape # s)
    IN  /\ IF IntEqualsList(Len(tmp), _list_cs)
           THEN /\ UNCHANGED <<_list_cs, m_children>>
                /\ ret' = Ret("removeChildShape", s, "None", 0, <<>>)
           ELSE /\ _list_cs' = tmp
                /\ m_children' = nativeRemoveChildShape(m_children, ptr_CollisionShape(s))
                /\ ret' = Ret("removeChildShape", s, "None", 0, <<"removeChildShape">>)
        /\ probe' = IF probe.phase = "added" /\ probe.obj = "compound" /\ probe.elem = s
                    THEN [probe EXCEPT !.phase = "removed"]
                    ELSE NoProbe
        /\ UNCHANGED <<worldVars, bodyVars, lifeVars>>

\* CompoundShape.getNumChildShapes as a function of the two containers.
NumChildShapesResult(op, arg) ==
    IF Len(_list_cs) # Len(m_children)
    THEN Ret(op, arg, "AssertionError", 0, <<"getNumChildShapes">>)
    ELSE Ret(op, arg, "value", Len(m_children),
             <<"getNumChildShapes", "getNumChildShapes">>)

getNumChildShapes ==
    /\ ret' = NumChildShapesResult("getNumChildShapes", 0)
    /\ probe' = NoProbe
    /\ UNCHANGED <<worldVars, compoundVars, bodyVars, lifeVars>>

\* CompoundShape.getChildShape(index), index 0-based as in Python; the
\* value 0 stands for None.
ChildShapeAt(index) ==
    IF 0 <= index /\ index < Len(m_children) THEN _list_cs[index + 1].cshape ELSE 0

getChildShape(index) ==
    LET n == NumChildShapesResult("getChildShape", index)
    IN  /\ ret' = IF n.out = "AssertionError" THEN n
                  ELSE IF ~(0 <= index /\ index < n.num)
                       THEN Ret("getChildShape", index, "None", 0, n.native)
                       ELSE Ret("getChildShape", index, "value", ChildShapeAt(index), n.native)
        /\ probe' = NoProbe
        /\ UNCHANGED <<worldVars, compoundVars, bodyVars, lifeVars>>

\* CompoundShape.getChildTransform(index) reads the native child array
\* without a range check: an index outside the array is undefined behaviour
\* (any transform, or a crash).
getChildTransform(index) ==
    /\ \/ /\ 0 <= index /\ index < Len(m_children)
          /\ ret' = Ret("getChildTransform", index, "value",
                        m_children[index + 1].transform, <<"getChildTransform">>)
       \/ /\ ~(0 <= index /\ index < Len(m_children))
          /\ \/ \E t \in Transforms :
                  ret' = Ret("getChildTransform", index, "value", t, <<"getChildTransform">>)
             \/ ret' = Ret("getChildTransform", index, "crash", 0, <<"getChildTransform">>)
    /\ probe' = NoProbe
    /\ UNCHANGED <<worldVars, compoundVars, bodyVars, lifeVars>>

\* Vec3() and Transform() built without arguments.
Vec3Default == "zero"
TransformDefault == "identity"

\* Variant of calculatePrincipalAxisTransform without the early return for a
\* shape that has no children: the native computation always runs.
calculatePrincipalAxisTransformNoEarlyReturn(n) ==
    /\ IF n # Len(m_children)
       THEN ret' = Ret("calculatePrincipalAxisTransform", n, "AssertionError", 0,
                       <<"getNumChildShapes">>)
       ELSE ret' = [Ret("calculatePrincipalAxisTransform", n, "value", 0,
                        <<"getNumChildShapes", "calculatePrincipalAxisTransform">>)
                    EXCEPT !.inertia = "native", !.principal = "native"]
    /\ probe' = NoProbe
    /\ UNCHANGED <<worldVars, compoundVars, bodyVars, lifeVars>>

\* Variant of calculatePrincipalAxisTransform without the check of
\* len(masses) against the number of children.
calculatePrincipalAxisTransformNoLengthCheck(n) ==
    /\ IF Len(m_children) = 0
       THEN ret' = [Ret("calculatePrincipalAxisTransform", n, "value", 0,
                        <<"getNumChildShapes">>)
                    EXCEPT !.inertia = Vec3Default, !.principal = TransformDefault]
       ELSE ret' = [Ret("calculatePrincipalAxisTransform", n, "value", 0,
                        <<"getNumChildShapes", "calculatePrincipalAxisTransform">>)
                    EXCEPT !.inertia = "native", !.principal = "native"]
    /\ probe' = NoProbe
    /\ UNCHANGED <<worldVars, compoundVars, bodyVars, lifeVars>>

\* CompoundShape.calculatePrincipalAxisTransform(masses); n is len(masses).
\* The masses buffer is `new btScalar(len(masses))`, one scalar, so writing
\* masses[1..] overruns it: with two or more masses the call either returns
\* the native result or crashes.
calculatePrincipalAxisTransform(n) ==
    /\ IF n # Len(m_children)
       THEN ret' = Ret("calculatePrincipalAxisTransform", n, "AssertionError", 0,
                       <<"getNumChildShapes">>)
       ELSE IF Len(m_children) = 0
       THEN ret' = [Ret("calculatePrincipalAxisTransform", n, "value", 0,
                        <<"getNumChildShapes", "getNumChildShapes">>)
                    EXCEPT !.inertia = Vec3Default, !.principal = TransformDefault]
       ELSE \/ ret' = [Ret("calculatePrincipalAxisTransform", n, "value", 0,
                           <<"getNumChildShapes", "getNumChildShapes",
                             "calculatePrincipalAxisTransform">>)
                       EXCEPT !.inertia = "native", !.principal = "native"]
            \/ /\ n >= 2
               /\ ret' = Ret("calculatePrincipalAxisTransform", n, "crash", 0,
                             <<"getNumChildShapes", "getNumChildShapes">>)
    /\ probe' = NoProbe
    /\ UNCHANGED <<worldVars, compoundVars, bodyVars, lifeVars>>

NextCompound ==
    \/ \E t \in Transforms, s \in Shapes : addChildShape(t, s)
    \/ \E s \in Shapes : removeChildShape(s)
    \/ getNumChildShapes
    \/ \E i \in 0..MaxChildren : getChildShape(i)
    \/ \E i \in 0..MaxChildren : getChildTransform(i)
    \/ \E n \in 0..MaxMasses : calculatePrincipalAxisTransform(n)

(* --------------------- constraints and rigid bodies ------------------- *)

\* Address of the native body a RigidBody wrapper owns (ptr_RigidBody).
ptr_RigidBody(b) == handles[b]

\* btTypedConstraint::getRigidBodyA / getRigidBodyB: the native bodies whose
\* references Point2PointConstraint.__init__ handed to the native constructor.
nativeGetRigidBodyA(c) == ptr_RigidBody(ConstraintParams(c).rbA)
nativeGetRigidBodyB(c) == ptr_RigidBody(ConstraintParams(c).rbB)

\* RigidBody(ci): a new wrapper owning a newly allocated native body.
AllocRigidBody(heap) == Len(heap) + 1

\* TypedConstraint.getRigidBodyA / getRigidBodyB: build a scratch RigidBody,
\* then assign the constraint's native body INTO the scratch native body
\* (`body.ptr_RigidBody[0] = ...` copies the object, not the pointer).
getRigidBody(op, c, src) ==
    LET p == AllocRigidBody(bodyHeap)
    IN  /\ Len(bodyHeap) < MaxNativeBodies
        /\ bodyHeap' = Append(bodyHeap, bodyHeap[src])
        /\ handles' = Append(handles, p)
        /\ ret' = Ret(op, c, "value", p, <<op>>)
        /\ probe' = NoProbe
        /\ UNCHANGED <<worldVars, compoundVars, enabled, lifeVars>>

getRigidBodyA(c) == getRigidBody("getRigidBodyA", c, nativeGetRigidBodyA(c))
getRigidBodyB(c) == getRigidBody("getRigidBodyB", c, nativeGetRigidBodyB(c))

setEnabled(c, flag) ==
    /\ enabled' = [enabled EXCEPT ![c] = flag]
    /\ ret' = Ret("setEnabled", c, "None", 0, <<"setEnabled">>)
    /\ probe' = NoProbe
    /\ UNCHANGED <<worldVars, compoundVars, bodyHeap, handles, lifeVars>>

isEnabled(c) ==
    /\ ret' = Ret("isEnabled", c, "value", IF enabled[c] THEN 1 ELSE 0, <<"isEnabled">>)
    /\ probe' = NoProbe
    /\ UNCHANGED <<worldVars, compoundVars, bodyVars, lifeVars>>

NextConstraint ==
    \/ \E c \in Constraints : getRigidBodyA(c)
    \/ \E c \in Constraints : getRigidBodyB(c)
    \/ \E c \in Constraints, f \in BOOLEAN : setEnabled(c, f)
    \/ \E c \in Constraints : isEnabled(c)

(* ---------------------------- specifications -------------------------- *)

Init ==
    /\ worldPhase = "uninit"
    /\ createLog = <<>>
    /\ destroyLog = <<>>
    /\ _list_constraints = <<>>
    /\ m_constraints = <<>>
    /\ _list_cs = <<>>
    /\ m_children = <<>>
    /\ bodyHeap = [p \in Bodies |-> p]
    /\ handles = [b \in Bodies |-> b]
    /\ enabled = [c \in Constraints |-> TRUE]
    /\ clientRef = [c \in Constraints |-> TRUE]
    /\ liveConstraints = {ptr_TypedConstraint(c) : c \in Constraints}
    /\ ret = NoRet
    /\ probe = NoProbe

SpecWorld == Init /\ [][NextWorld]_vars
SpecCompound == Init /\ [][NextCompound]_vars
SpecConstraint == Init /\ [][NextConstraint]_vars

\* The world together with the lifetime of the constraint wrappers.
NextLifetime ==
    \/ NextWorld
    \/ \E i \in (0 - 1)..NumConstraints : getConstraint(i)
    \/ \E c \in Constraints : dropConstraint(c)

SpecLifetime == Init /\ [][NextLifetime]_vars

\* The two containers driven together: the world's constraints and the
\* compound shape's children.
NextContainers ==
    \/ BulletBase__cinit__
    \/ \E c \in Constraints : addConstraint(c)
    \/ \E c \in Constraints : removeConstraint(c)
    \/ \E t \in Transforms, s \in Shapes : addChildShape(t, s)
    \/ \E s \in Shapes : removeChildShape(s)

SpecContainers == Init /\ [][NextContainers]_vars

(* ------------------------------- claims ------------------------------- *)

NoDuplicates(lst) == \A i, j \in 1..Len(lst) : lst[i] = lst[j] => i = j

Count(log, x) == Cardinality({i \in 1..Len(log) : log[i] = x})

IndexOf(log, x) == CHOOSE i \in 1..Len(log) : log[i] = x

\* C1: after any sequence of addConstraint and removeConstraint calls the
\* tracked constraint sequence is as long as the native world's constraint
\* array, so getNumConstraints never raises AssertionError and returns the
\* tracked sequence's length.
C1_ConstraintCountsAgree ==
    /\ Len(_list_constraints) = Len(m_constraints)
    /\ ret.op = "getNumConstraints" =>
          ret.out = "value" /\ ret.num = Len(_list_constraints)

\* getNumConstraints has returned 2 on a world that holds two constraints.
C1_Witness ==
    /\ ret.op = "getNumConstraints"
    /\ ret.out = "value"
    /\ ret.num = 2
    /\ Len(_list_constraints) = 2

\* C2: addConstraint(c) compares by identity: when c is already tracked the
\* call changes neither the tracked sequence nor the native world, otherwise c
\* is appended at the end and registered once with the native world; hence
\* the tracked sequence never holds one object twice, and a second object
\* with the parameters of a tracked one is tracked as an entry of its own.
C2_AddByIdentity ==
    [][ret'.op = "addConstraint" =>
        LET c == ret'.arg
        IN  /\ IF c \in Range(_list_constraints)
               THEN /\ _list_constraints' = _list_constraints
                    /\ m_constraints' = m_constraints
                    /\ ret'.native = <<>>
               ELSE /\ _list_constraints' = Append(_list_constraints, c)
                    /\ m_constraints' = Append(m_constraints, ptr_TypedConstraint(c))
                    /\ ret'.native = <<"addConstraint">>
            /\ NoDuplicates(_list_constraints')
            /\ c \in Range(_list_constraints')]_vars

\* Constraint 2 has just been added to a world that tracks constraint 1,
\* built from the same parameters; both are entries.
C2_Witness ==
    /\ ret.op = "addConstraint"
    /\ ret.arg = 2
    /\ ret.native = <<"addConstraint">>
    /\ ConstraintParams(1) = ConstraintParams(2)
    /\ {1, 2} \subseteq Range(_list_constraints)

\* C3: removeConstraint(c) with c not in the tracked sequence takes the
\* not-found path: the tracked sequence is unchanged and no removal call is
\* issued to the native world.
C3_RemoveAbsentNoSideEffects ==
    [][(ret'.op = "removeConstraint" /\ ret'.arg \notin Range(_list_constraints)) =>
        /\ _list_constraints' = _list_constraints
        /\ m_constraints' = m_constraints
        /\ ret'.native = <<>>]_vars

\* Count and membership of the probed container, wrapper side and native side.
ContainerNow(obj) ==
    IF obj = "world"
    THEN [count |-> Len(_list_constraints), members |-> Range(_list_constraints),
          ncount |-> Len(m_constraints),
          nmembers |-> {p.addr : p \in Range(m_constraints)}]
    ELSE [count |-> Len(_list_cs), members |-> {e.cshape : e \in Range(_list_cs)},
          ncount |-> Len(m_children),
          nmembers |-> {e.shape.addr : e \in Range(m_children)}]

Restored ==
    LET now == ContainerNow(probe.obj)
    IN  /\ now.count = probe.count
        /\ now.members = probe.members
        /\ now.ncount = probe.ncount
        /\ now.nmembers = probe.nmembers

\* C4 as stated: add followed by remove of the same element restores count
\* and membership of the container, for every prior state.
C4_AddRemoveRestoresAlways ==
    probe.phase = "removed" => Restored

\* C4 as amended: add followed by remove of the same element restores count
\* and membership of the container whenever the element was not in the
\* container before the add.
C4_AddRemoveRestoresWhenAbsent ==
    (probe.phase = "removed" /\ probe.elem \notin probe.members) => Restored

\* An add/remove round trip of a shape that was not a child has completed on
\* a compound shape with children, next to a world that holds constraints.
C4_Witness ==
    /\ probe.phase = "removed" /\ probe.obj = "compound"
    /\ probe.elem \notin probe.members /\ probe.count >= 1
    /\ Len(_list_constraints) >= 1

\* C5: getRigidBodyA / getRigidBodyB return a handle whose native pointer is
\* the native body supplied when the constraint was constructed.
C5_BodyHandleKeepsNativeIdentity ==
    /\ ret.op = "getRigidBodyA" => ret.num = ptr_RigidBody(ConstraintParams(ret.arg).rbA)
    /\ ret.op = "getRigidBodyB" => ret.num = ptr_RigidBody(ConstraintParams(ret.arg).rbB)

\* C6 as stated: with zero children calculatePrincipalAxisTransform returns
\* zero inertia and the identity transform, whatever the length of masses,
\* without invoking the native computation.
C6_ZeroChildrenAnyMasses ==
    (ret.op = "calculatePrincipalAxisTransform" /\ Len(m_children) = 0) =>
        /\ ret.out = "value"
        /\ ret.inertia = "zero" /\ ret.principal = "identity"
        /\ \A i \in 1..Len(ret.native) : ret.native[i] # "calculatePrincipalAxisTransform"

\* C6 as amended: with zero children and an empty masses argument the call
\* returns zero inertia and the identity transform without invoking the
\* native computation; with zero children and a non-empty masses argument it
\* raises AssertionError.
C6_ZeroChildren ==
    (ret.op = "calculatePrincipalAxisTransform" /\ Len(m_children) = 0) =>
        /\ \A i \in 1..Len(ret.native) : ret.native[i] # "calculatePrincipalAxisTransform"
        /\ IF ret.arg = 0
           THEN ret.out = "value" /\ ret.inertia = "zero" /\ ret.principal = "identity"
           ELSE ret.out = "AssertionError"

\* The call has returned on a compound shape without children, empty masses.
C6_Witness ==
    /\ ret.op = "calculatePrincipalAxisTransform"
    /\ Len(m_children) = 0 /\ Len(_list_cs) = 0
    /\ ret.arg = 0 /\ ret.out = "value"

\* C7: calculatePrincipalAxisTransform(masses) with len(masses) different
\* from the number of children raises AssertionError before the native
\* principal-axis computation is invoked and leaves the child list and the
\* native child array unchanged.
C7_MassesLengthMismatchRejected ==
    [][(ret'.op = "calculatePrincipalAxisTransform" /\ ret'.arg # Len(m_children)) =>
        /\ ret'.out = "AssertionError"
        /\ \A i \in 1..Len(ret'.native) : ret'.native[i] # "calculatePrincipalAxisTransform"
        /\ _list_cs' = _list_cs
        /\ m_children' = m_children]_vars

\* A call with one mass too few has been rejected on a shape with two children.
C7_Witness ==
    /\ ret.op = "calculatePrincipalAxisTransform"
    /\ Len(m_children) = 2 /\ ret.arg = 1
    /\ ret.out = "AssertionError"

\* C8: after any sequence of addChildShape and removeChildShape calls the
\* wrapper's child list is as long as the native child array, so
\* getNumChildShapes never raises AssertionError.
C8_ChildCountsAgree ==
    /\ Len(_list_cs) = Len(m_children)
    /\ ret.op = "getNumChildShapes" => ret.out = "value" /\ ret.num = Len(_list_cs)

\* A shape that was a child twice has been removed while another child stays.
C8_Witness ==
    /\ ret.op = "removeChildShape"
    /\ ret.arg \notin {e.cshape : e \in Range(_list_cs)}
    /\ Len(_list_cs) = 1 /\ Len(m_children) = 1
    /\ probe.phase = "removed" /\ probe.count = 2 /\ probe.elem \in probe.members

\* C9: every native component of the world is created exactly once at
\* construction and destroyed exactly once at destruction; the native world
\* is destroyed before the solver, the broadphase and the dispatcher, and no
\* component is destroyed before a component that was built on it.
C9_LifecycleOrder ==
    /\ worldPhase = "uninit" => createLog = <<>> /\ destroyLog = <<>>
    /\ worldPhase # "uninit" =>
          /\ Len(createLog) = 5
          /\ \A x \in Range(CinitOrder) : Count(createLog, x) = 1
          /\ \A d \in BuiltOn : IndexOf(createLog, d[2]) < IndexOf(createLog, d[1])
    /\ worldPhase = "alive" => destroyLog = <<>>
    /\ worldPhase = "dead" =>
          /\ Len(destroyLog) = 5
          /\ \A x \in Range(CinitOrder) : Count(destroyLog, x) = 1
          /\ \A x \in {"solver", "pairCache", "dispatcher"} :
                IndexOf(destroyLog, "dynamicsWorld") < IndexOf(destroyLog, x)
          /\ \A d \in BuiltOn : IndexOf(destroyLog, d[1]) < IndexOf(destroyLog, d[2])

\* A world that held a constraint has been destroyed.
C9_Witness ==
    /\ worldPhase = "dead"
    /\ Len(destroyLog) = 5
    /\ Len(_list_constraints) >= 1

\* C10: the wrapper's child list and the native child array hold the same
\* children at the same indices: getChildShape(i) is the shape of the native
\* child whose transform getChildTransform(i) returns.
C10_ChildrenAligned ==
    \A i \in 0..(Len(m_children) - 1) :
        i < Len(_list_cs) =>
            ptr_CollisionShape(ChildShapeAt(i)) = m_children[i + 1].shape

\* C11: every native constraint registered with the native world is live: a
\* constraint wrapper that is an entry of the tracked sequence has not been
\* destroyed, and the native world never holds a pointer to a deleted
\* native constraint.
C11_RegisteredConstraintsLive ==
    worldPhase = "alive" =>
        /\ \A c \in Range(_list_constraints) : ptr_TypedConstraint(c) \in liveConstraints
        /\ \A i \in 1..Len(m_constraints) : m_constraints[i] \in liveConstraints

\* A constraint has been deleted after its removal from the world, while
\* the world still holds a constraint that only the tracked sequence keeps
\* alive.
C11_Witness ==
    /\ worldPhase = "alive"
    /\ ret.op = "del constraint" /\ ret.native = <<"delete">>
    /\ \E c \in Range(_list_constraints) :
          ~clientRef[c] /\ ptr_TypedConstraint(c) \in Range(m_constraints)
    /\ \E c \in Constraints : ptr_TypedConstraint(c) \notin liveConstraints

====
